---- MODULE Spec2Model ----
(***************************************************************************)
(* A model of openraft's RaftState (openraft/src/raft_state/mod.rs): the   *)
(* node-local record of vote, log ids, commit point, purge boundary,       *)
(* membership and snapshot metadata, with its mutators and queries.        *)
(*                                                                         *)
(* The collaborators RaftState calls into (LogIdList, MembershipState,     *)
(* Vote, LogStateReader::has_log_id) live in other files of the crate;     *)
(* they are modelled here from their documented contract.                  *)
(***************************************************************************)
EXTENDS Integers, Sequences, FiniteSets, TLC

\* ------------------------------------------------------------------------
\* Bounds of the model
\* ------------------------------------------------------------------------
MaxTerm == 2
MaxIndex == 2
MaxNode == 2
MaxBatch == 2

Terms == 1..MaxTerm
Indexes == 0..MaxIndex
NodeIds == 1..MaxNode

\* ------------------------------------------------------------------------
\* Option<T>: None is the empty sequence, Some(x) the one-element sequence
\* ------------------------------------------------------------------------
None == << >>
Some(x) == << x >>
IsSome(o) == o # None
Unwrap(o) == o[1]

\* ------------------------------------------------------------------------
\* LogId { leader_id, index }, ordered by leader_id (the term), then index
\* ------------------------------------------------------------------------
LogId(t, i) == [leader_id |-> t, index |-> i]
LogIds == { LogId(t, i) : t \in Terms, i \in Indexes }
OptLogIds == { None } \cup { Some(l) : l \in LogIds }

LogIdLT(a, b) ==
    \/ a.leader_id < b.leader_id
    \/ a.leader_id = b.leader_id /\ a.index < b.index

\* Option<LogId> ordering: None is below every Some
OptLT(a, b) ==
    \/ a = None /\ b # None
    \/ a # None /\ b # None /\ LogIdLT(Unwrap(a), Unwrap(b))
OptLE(a, b) == a = b \/ OptLT(a, b)
OptMax(a, b) == IF OptLT(a, b) THEN b ELSE a

\* LogIdOptionExt on Option<LogId>
OptIndex(o) == IF o = None THEN None ELSE Some(Unwrap(o).index)
NextIndex(o) == IF o = None THEN 0 ELSE Unwrap(o).index + 1

\* Option<u64> ordering used by less_equal!(first().index(), Some(0))
OptNatLE(a, b) ==
    IF a = None THEN TRUE
    ELSE IF b = None THEN FALSE
    ELSE Unwrap(a) <= Unwrap(b)

\* ------------------------------------------------------------------------
\* LogIdList: key_log_ids holds the first log id of every leader, and the
\* last log id of the log. An index in between has the leader of the key
\* log id at or before it.
\* ------------------------------------------------------------------------
LogFirst(ids) == IF Len(ids) = 0 THEN None ELSE Some(ids[1])
LogLast(ids) == IF Len(ids) = 0 THEN None ELSE Some(ids[Len(ids)])

\* the number of key log ids whose index is below `index`
KeysBelow(ids, index) == Cardinality({ k \in 1..Len(ids) : ids[k].index < index })

LogGet(ids, index) ==
    IF \E k \in 1..Len(ids) : ids[k].index = index
    THEN LET k == CHOOSE k \in 1..Len(ids) : ids[k].index = index
         IN  Some(LogId(ids[k].leader_id, index))
    ELSE LET i == KeysBelow(ids, index)
         IN  IF i = 0 \/ i = Len(ids)
             THEN None
             ELSE Some(LogId(ids[i].leader_id, index))

LogAppend(ids, new_log_id) ==
    LET l == Len(ids)
    IN  IF l = 0 THEN << new_log_id >>
        ELSE IF l = 1 THEN Append(ids, new_log_id)
        ELSE IF ids[l - 1].leader_id = ids[l].leader_id
             THEN [ids EXCEPT ![l] = new_log_id]
             ELSE Append(ids, new_log_id)

LogExtendFromSameLeader(ids, new_ids) ==
    IF Len(new_ids) = 0 THEN ids
    ELSE LET first_id == new_ids[1]
             last_id == new_ids[Len(new_ids)]
             one == LogAppend(ids, first_id)
         IN  IF last_id # first_id THEN LogAppend(one, last_id) ELSE one

RECURSIVE LogExtendLoop(_, _, _)
LogExtendLoop(ids, new_ids, prev) ==
    IF Len(new_ids) = 0 THEN ids
    ELSE LET log_id == Head(new_ids)
         IN  IF prev # Some(log_id.leader_id)
             THEN LogExtendLoop(LogAppend(ids, log_id), Tail(new_ids), Some(log_id.leader_id))
             ELSE LogExtendLoop(ids, Tail(new_ids), prev)

LogExtend(ids, new_ids) ==
    LET prev == IF Len(ids) = 0 THEN None ELSE Some(ids[Len(ids)].leader_id)
        keyed == LogExtendLoop(ids, new_ids, prev)
    IN  IF Len(new_ids) = 0 THEN keyed
        ELSE LET log_id == new_ids[Len(new_ids)]
             IN  IF keyed[Len(keyed)] # log_id THEN LogAppend(keyed, log_id) ELSE keyed

LogPurge(ids, upto) ==
    IF upto.index >= NextIndex(LogLast(ids)) THEN << upto >>
    ELSE IF upto.index < ids[1].index THEN ids
    ELSE IF \E k \in 1..Len(ids) : ids[k].index = upto.index
         THEN LET k == CHOOSE k \in 1..Len(ids) : ids[k].index = upto.index
              IN  SubSeq(ids, k, Len(ids))
         ELSE LET i == KeysBelow(ids, upto.index)
                  rest == SubSeq(ids, i, Len(ids))
              IN  [rest EXCEPT ![1] = LogId(rest[1].leader_id, upto.index)]

\* ------------------------------------------------------------------------
\* Vote: (term, the node voted for, committed flag)
\* ------------------------------------------------------------------------
Vote(t, n, c) == [term |-> t, voted_for |-> Some(n), committed |-> c]
VoteDefault == [term |-> 0, voted_for |-> None, committed |-> FALSE]
Votes == { VoteDefault } \cup { Vote(t, n, c) : t \in Terms, n \in NodeIds, c \in BOOLEAN }

VoteIsCommitted(v) == v.committed
VotedFor(v) == v.voted_for
\* the leader id of a vote granted by a quorum; None while it is not granted
CommittedLeaderId(v) == IF v.committed THEN Some(v.term) ELSE None

\* ------------------------------------------------------------------------
\* Membership: the voters, and the metadata of every node (voter or learner)
\* ------------------------------------------------------------------------
Metas == { "a", "b" }
NodeMaps == UNION { [d -> Metas] : d \in SUBSET NodeIds }
Memberships == { [voters |-> v, nodes |-> n] : v \in SUBSET NodeIds, n \in NodeMaps }
EffectiveMembership(l, m) == [log_id |-> l, membership |-> m]
MembershipDefault == [voters |-> {}, nodes |-> << >>]
MembershipStateDefault ==
    [committed |-> EffectiveMembership(None, MembershipDefault),
     effective |-> EffectiveMembership(None, MembershipDefault)]

MembershipIsVoter(ms, id) == id \in ms.effective.membership.voters
MembershipGetNode(em, id) ==
    IF id \in DOMAIN em.membership.nodes THEN Some(em.membership.nodes[id]) ELSE None
\* the effective membership becomes the committed one when its log id is committed
MembershipCommit(ms, committed_log_id) ==
    IF OptLE(ms.effective.log_id, committed_log_id)
    THEN [ms EXCEPT !.committed = ms.effective]
    ELSE ms
MembershipAppend(ms, em) == [ms EXCEPT !.effective = em]
\* a membership is valid if it has the metadata of every voter
MembershipIsValid(m) == m.voters \subseteq DOMAIN m.nodes
MembershipValidate(ms) == OptLE(ms.committed.log_id, ms.effective.log_id)

\* ------------------------------------------------------------------------
\* RaftState
\* ------------------------------------------------------------------------
VARIABLES
    vote,               \* the vote state of this node
    committed,          \* Option<LogId>: the last committed log id
    purged_next,        \* u64
    log_ids,            \* LogIdList.key_log_ids
    membership_state,   \* committed and effective membership
    snapshot_meta,      \* SnapshotMeta, of which last_log_id is read
    server_state,       \* the stored (volatile) ServerState
    purge_upto,         \* Option<LogId>: the postponed purge
    call,               \* the last method called: its name, argument and result
    max_cand,           \* history: the greatest candidate passed to update_committed
    max_prev            \* history: the greatest `prev` update_committed returned

state == << vote, committed, purged_next, log_ids, membership_state, snapshot_meta,
            server_state, purge_upto >>
history == << max_cand, max_prev >>
vars == << vote, committed, purged_next, log_ids, membership_state, snapshot_meta,
           server_state, purge_upto, call, max_cand, max_prev >>

\* `commit` is what the call passed to membership_state.commit, None if it did not call it
Call(op, arg, ret) == [op |-> op, arg |-> arg, ret |-> ret, commit |-> None]
CallWithCommit(op, arg, ret, c) == [op |-> op, arg |-> arg, ret |-> ret, commit |-> Some(c)]

ServerStates == { "Learner", "Follower", "Candidate", "Leader" }

\* RaftState::default()
Init ==
    /\ vote = VoteDefault
    /\ committed = None
    /\ purged_next = 0
    /\ log_ids = << >>
    /\ membership_state = MembershipStateDefault
    /\ snapshot_meta = [last_log_id |-> None]
    /\ server_state = "Learner"
    /\ purge_upto = None
    /\ call = Call("default", None, None)
    /\ max_cand = None
    /\ max_prev = None

\* ------------------------------------------------------------------------
\* LogStateReader for RaftState
\* ------------------------------------------------------------------------
get_log_id(index) == LogGet(log_ids, index)
last_log_id == LogLast(log_ids)
snapshot_last_log_id == snapshot_meta.last_log_id
last_purged_log_id == IF purged_next = 0 THEN None ELSE LogFirst(log_ids)
\* a log has a log id if its entry at that index carries exactly that log id
has_log_id(log_id) == get_log_id(log_id.index) = Some(log_id)

\* ------------------------------------------------------------------------
\* Validate for RaftState
\* ------------------------------------------------------------------------
ValidatePurged ==
    IF purged_next = 0
    THEN OptNatLE(OptIndex(LogFirst(log_ids)), Some(0))
    ELSE purged_next = NextIndex(LogFirst(log_ids))
ValidatePurgeUpto == OptLE(last_purged_log_id, purge_upto)
\* a variant of the snapshot check that always compares purge_upto with committed
ValidateSnapshot_committed_only == OptLE(purge_upto, committed)
ValidateSnapshot ==
    IF snapshot_last_log_id = None
    THEN OptLE(purge_upto, committed)
    ELSE OptLE(purge_upto, snapshot_last_log_id)
ValidateCommitted ==
    /\ OptLE(snapshot_last_log_id, committed)
    /\ OptLE(committed, last_log_id)
validate ==
    /\ ValidatePurged
    /\ ValidatePurgeUpto
    /\ ValidateSnapshot
    /\ ValidateCommitted
    /\ MembershipValidate(membership_state)

\* ------------------------------------------------------------------------
\* Inputs
\* ------------------------------------------------------------------------
\* A run of log ids the caller may append: index-contiguous with the tail of
\* the log, the leader ids not below the tail's and not decreasing.
IsRun(new_ids) ==
    /\ \A k \in 1..Len(new_ids) : new_ids[k].index = NextIndex(last_log_id) + k - 1
    /\ \A k \in 1..Len(new_ids) : OptLT(last_log_id, Some(new_ids[k]))
    /\ \A k \in 2..Len(new_ids) : new_ids[k - 1].leader_id <= new_ids[k].leader_id
IsSameLeaderRun(new_ids) ==
    /\ IsRun(new_ids)
    /\ \A k \in 1..Len(new_ids) : new_ids[k].leader_id = new_ids[1].leader_id
\* the sequences of at most MaxBatch log ids that continue the indexes of the log
Continuations ==
    LET from == NextIndex(last_log_id)
        lens == { n \in 0..MaxBatch : from + n - 1 <= MaxIndex }
    IN  UNION { { [k \in 1..n |-> LogId(t[k], from + k - 1)] : t \in [1..n -> Terms] } : n \in lens }

\* ------------------------------------------------------------------------
\* Mutators
\* ------------------------------------------------------------------------
extend_log_ids_from_same_leader(new_log_ids) ==
    /\ IsSameLeaderRun(new_log_ids)
    /\ log_ids' = LogExtendFromSameLeader(log_ids, new_log_ids)
    /\ call' = Call("extend_log_ids_from_same_leader", new_log_ids, None)
    /\ UNCHANGED << vote, committed, purged_next, membership_state, snapshot_meta,
                    server_state, purge_upto >>

\* a variant of extend_log_ids that appends the first log id of the input only
extend_log_ids_first_only(new_log_id) ==
    /\ IsRun(new_log_id)
    /\ log_ids' = IF Len(new_log_id) = 0 THEN log_ids ELSE LogAppend(log_ids, new_log_id[1])
    /\ call' = Call("extend_log_ids", new_log_id, None)
    /\ UNCHANGED << vote, committed, purged_next, membership_state, snapshot_meta,
                    server_state, purge_upto >>

extend_log_ids(new_log_id) ==
    /\ IsRun(new_log_id)
    /\ log_ids' = LogExtend(log_ids, new_log_id)
    /\ call' = Call("extend_log_ids", new_log_id, None)
    /\ UNCHANGED << vote, committed, purged_next, membership_state, snapshot_meta,
                    server_state, purge_upto >>

\* a variant of update_committed that takes any different value
update_committed_unordered(c) ==
    IF c # committed
    THEN /\ committed' = c
         /\ membership_state' = MembershipCommit(membership_state, c)
         /\ call' = CallWithCommit("update_committed", c, Some(committed), c)
         /\ UNCHANGED << vote, purged_next, log_ids, snapshot_meta, server_state, purge_upto >>
    ELSE /\ call' = Call("update_committed", c, None)
         /\ UNCHANGED state

\* a variant of update_committed that compares with >= instead of >
update_committed_ge(c) ==
    IF OptLE(committed, c)
    THEN /\ committed' = c
         /\ membership_state' = MembershipCommit(membership_state, c)
         /\ call' = CallWithCommit("update_committed", c, Some(committed), c)
         /\ UNCHANGED << vote, purged_next, log_ids, snapshot_meta, server_state, purge_upto >>
    ELSE /\ call' = Call("update_committed", c, None)
         /\ UNCHANGED state

\* a variant of update_committed that notifies the membership of every candidate
update_committed_notify_always(c) ==
    IF OptLT(committed, c)
    THEN /\ committed' = c
         /\ membership_state' = MembershipCommit(membership_state, c)
         /\ call' = CallWithCommit("update_committed", c, Some(committed), c)
         /\ UNCHANGED << vote, purged_next, log_ids, snapshot_meta, server_state, purge_upto >>
    ELSE /\ membership_state' = MembershipCommit(membership_state, c)
         /\ call' = CallWithCommit("update_committed", c, None, c)
         /\ UNCHANGED << vote, committed, purged_next, log_ids, snapshot_meta, server_state,
                         purge_upto >>

\* Update field `committed` if the input is greater.
\* If updated, it returns the previous value in a Some().
update_committed(c) ==
    IF OptLT(committed, c)
    THEN /\ committed' = c
         /\ membership_state' = MembershipCommit(membership_state, c)
         /\ call' = CallWithCommit("update_committed", c, Some(committed), c)
         /\ UNCHANGED << vote, purged_next, log_ids, snapshot_meta, server_state, purge_upto >>
    ELSE /\ call' = Call("update_committed", c, None)
         /\ UNCHANGED state

\* a variant of purge_log that sets the boundary to upto.index
purge_log_off_by_one(upto) ==
    /\ purged_next' = upto.index
    /\ log_ids' = LogPurge(log_ids, upto)
    /\ call' = Call("purge_log", upto, None)
    /\ UNCHANGED << vote, committed, membership_state, snapshot_meta, server_state, purge_upto >>

\* a variant of purge_log that purges the log ids and keeps the boundary
purge_log_keep_boundary(upto) ==
    /\ log_ids' = LogPurge(log_ids, upto)
    /\ call' = Call("purge_log", upto, None)
    /\ UNCHANGED << vote, committed, purged_next, membership_state, snapshot_meta, server_state,
                    purge_upto >>

purge_log(upto) ==
    /\ purged_next' = upto.index + 1
    /\ log_ids' = LogPurge(log_ids, upto)
    /\ call' = Call("purge_log", upto, None)
    /\ UNCHANGED << vote, committed, membership_state, snapshot_meta, server_state, purge_upto >>

\* ------------------------------------------------------------------------
\* Queries
\* ------------------------------------------------------------------------
\* the loop of first_conflicting_index, at position i (from 0) of the entries
RECURSIVE FirstConflictingFrom(_, _)
FirstConflictingFrom(ents, i) ==
    IF i >= Len(ents) THEN Len(ents)
    ELSE IF ~has_log_id(ents[i + 1]) THEN i
    ELSE FirstConflictingFrom(ents, i + 1)
\* a variant of first_conflicting_index that counts the entries the log has
first_conflicting_index_count(ents) ==
    Cardinality({ k \in 1..Len(ents) : has_log_id(ents[k]) })
first_conflicting_index(ents) == FirstConflictingFrom(ents, 0)

is_voter(id) == MembershipIsVoter(membership_state, id)
is_leading(id) == VotedFor(vote) = Some(id)
is_leader(id) == VotedFor(vote) = Some(id) /\ VoteIsCommitted(vote)

\* a variant of calc_server_state that looks at the vote before the membership
calc_server_state_vote_first(id) ==
    IF is_leader(id) THEN "Leader"
    ELSE IF is_leading(id) THEN "Candidate"
    ELSE IF is_voter(id) THEN "Follower"
    ELSE "Learner"

\* a variant of calc_server_state that trusts the stored server_state of a voter
calc_server_state_stored(id) ==
    IF is_voter(id) THEN server_state ELSE "Learner"

calc_server_state(id) ==
    IF is_voter(id)
    THEN IF is_leader(id) THEN "Leader"
         ELSE IF is_leading(id) THEN "Candidate"
         ELSE "Follower"
    ELSE "Learner"

\* ForwardToLeader { leader_id, leader_node }
ForwardToLeaderNew(id, n) == [leader_id |-> Some(id), leader_node |-> Some(n)]
ForwardToLeaderEmpty == [leader_id |-> None, leader_node |-> None]
\* the outcome of a call: a value returned, or a panic
Panic == "panic"
Returned(v) == [status |-> "ok", value |-> v]
Panicked == [status |-> Panic, value |-> None]

\* a variant of forward_to_leader that names the leader only while it is a voter
forward_to_leader_voter_only ==
    IF VoteIsCommitted(vote)
    THEN IF VotedFor(vote) = None THEN Panicked
         ELSE LET id == Unwrap(VotedFor(vote))
                  node == MembershipGetNode(membership_state.effective, id)
              IN  IF node # None /\ is_voter(id)
                  THEN Returned(ForwardToLeaderNew(id, Unwrap(node)))
                  ELSE Returned(ForwardToLeaderEmpty)
    ELSE Returned(ForwardToLeaderEmpty)

\* unwrap() of a committed vote that voted for no node panics
forward_to_leader ==
    IF VoteIsCommitted(vote)
    THEN IF VotedFor(vote) = None THEN Panicked
         ELSE LET id == Unwrap(VotedFor(vote))
                  node == MembershipGetNode(membership_state.effective, id)
              IN  IF node # None
                  THEN Returned(ForwardToLeaderNew(id, Unwrap(node)))
                  ELSE Returned(ForwardToLeaderEmpty)
    ELSE Returned(ForwardToLeaderEmpty)

\* The entries of a batch carry a log id each; a new entry has the default.
LogIdDefault == LogId(0, 0)
NewEntries(n) == [k \in 1..n |-> LogIdDefault]

RECURSIVE AssignLoop(_, _, _)
AssignLoop(ents, k, log_id) ==
    IF k > Len(ents) THEN ents
    ELSE AssignLoop([ents EXCEPT ![k] = log_id], k + 1, LogId(log_id.leader_id, log_id.index + 1))

\* a variant of assign_log_ids that starts at the index of the last log id
assign_log_ids_from_last(ents) ==
    IF CommittedLeaderId(vote) = None
    THEN [status |-> Panic, entries |-> ents]
    ELSE [status |-> "ok",
          entries |-> AssignLoop(ents, 1,
                        LogId(Unwrap(CommittedLeaderId(vote)),
                              IF last_log_id = None THEN 0 ELSE Unwrap(last_log_id).index))]

\* a variant of assign_log_ids that does nothing without a committed leader id
assign_log_ids_silent(ents) ==
    IF CommittedLeaderId(vote) = None
    THEN [status |-> "ok", entries |-> ents]
    ELSE [status |-> "ok",
          entries |-> AssignLoop(ents, 1, LogId(Unwrap(CommittedLeaderId(vote)), NextIndex(last_log_id)))]

\* unwrap() of an absent committed leader id panics before any entry is set
assign_log_ids(ents) ==
    IF CommittedLeaderId(vote) = None
    THEN [status |-> Panic, entries |-> ents]
    ELSE [status |-> "ok",
          entries |-> AssignLoop(ents, 1, LogId(Unwrap(CommittedLeaderId(vote)), NextIndex(last_log_id)))]

\* ------------------------------------------------------------------------
\* Actions: one per call the engine makes, and one per field it writes
\* ------------------------------------------------------------------------
\* the batches of at most MaxBatch entries with consecutive indexes, of any leaders
EntryBatches ==
    UNION { { [k \in 1..n |-> LogId(t[k], from + k - 1)] : t \in [1..n -> Terms] }
            : n \in 0..MaxBatch, from \in Indexes }

ExtendLogIdsFromSameLeader ==
    \E new_ids \in Continuations : extend_log_ids_from_same_leader(new_ids) /\ UNCHANGED history

ExtendLogIds ==
    \E new_ids \in Continuations : extend_log_ids(new_ids) /\ UNCHANGED history

UpdateCommitted ==
    \E c \in OptLogIds : update_committed(c) /\ UNCHANGED history

\* update_committed, with the history of its arguments and results kept
UpdateCommittedTraced ==
    \E c \in OptLogIds :
        /\ update_committed(c)
        /\ max_cand' = OptMax(max_cand, c)
        /\ max_prev' = IF call'.ret # None THEN OptMax(max_prev, Unwrap(call'.ret)) ELSE max_prev

PurgeLog ==
    \E upto \in LogIds : purge_log(upto) /\ UNCHANGED history

FirstConflictingIndex ==
    \E ents \in EntryBatches :
        /\ call' = Call("first_conflicting_index", ents, first_conflicting_index(ents))
        /\ UNCHANGED << state, history >>

CalcServerState ==
    \E id \in NodeIds :
        /\ call' = Call("calc_server_state", id, calc_server_state(id))
        /\ UNCHANGED << state, history >>

ForwardToLeader ==
    /\ call' = Call("forward_to_leader", None, forward_to_leader)
    /\ UNCHANGED << state, history >>

AssignLogIds ==
    \E n \in 0..MaxBatch :
        /\ call' = Call("assign_log_ids", NewEntries(n), assign_log_ids(NewEntries(n)))
        /\ UNCHANGED << state, history >>

\* The engine stores a vote; a committed vote has voted for a node.
SetVoteIn(S) ==
    \E v \in S :
        /\ vote' = v
        /\ call' = Call("vote", v, None)
        /\ UNCHANGED << committed, purged_next, log_ids, membership_state, snapshot_meta,
                        server_state, purge_upto, history >>
SetVote == SetVoteIn(Votes)
\* the votes this node casts for itself, as the node of the least id
SetOwnVote == SetVoteIn({ v \in Votes : v.voted_for = Some(1) })

\* The engine stores the membership found in the log entry `log_id`.
AppendMembership(log_id, m) ==
    /\ OptLT(membership_state.effective.log_id, log_id)
    /\ membership_state' = MembershipAppend(membership_state, EffectiveMembership(log_id, m))
    /\ call' = Call("membership_state", log_id, None)
    /\ UNCHANGED << vote, committed, purged_next, log_ids, snapshot_meta, server_state,
                    purge_upto >>

\* The engine stores the metadata of a snapshot it built of committed logs.
SetSnapshotMeta ==
    \E l \in LogIds :
        /\ OptLT(snapshot_last_log_id, Some(l))
        /\ OptLE(Some(l), committed)
        /\ snapshot_meta' = [last_log_id |-> Some(l)]
        /\ call' = Call("snapshot_meta", l, None)
        /\ UNCHANGED << vote, committed, purged_next, log_ids, membership_state, server_state,
                        purge_upto, history >>

\* The engine postpones a purge of logs the snapshot (or commit point) covers.
SetPurgeUpto ==
    \E l \in LogIds :
        /\ OptLT(purge_upto, Some(l))
        /\ OptLE(last_purged_log_id, Some(l))
        /\ IF snapshot_last_log_id = None
           THEN OptLE(Some(l), committed)
           ELSE OptLE(Some(l), snapshot_last_log_id)
        /\ purge_upto' = Some(l)
        /\ call' = Call("purge_upto", l, None)
        /\ UNCHANGED << vote, committed, purged_next, log_ids, membership_state, snapshot_meta,
                        server_state, history >>

SetServerState ==
    \E s \in ServerStates :
        /\ server_state' = s
        /\ call' = Call("server_state", s, None)
        /\ UNCHANGED << vote, committed, purged_next, log_ids, membership_state, snapshot_meta,
                        purge_upto, history >>

\* ------------------------------------------------------------------------
\* Specifications
\* ------------------------------------------------------------------------
\* the memberships the log entries of the main specification carry
LogMemberships == { [voters |-> { 1 }, nodes |-> [n \in { 1 } |-> "a"]] }

AppendLogMembership ==
    \E l \in LogIds, m \in LogMemberships : AppendMembership(Some(l), m) /\ UNCHANGED history

SetMembership ==
    \E m \in Memberships :
        /\ membership_state' = MembershipAppend(membership_state, EffectiveMembership(None, m))
        /\ call' = Call("membership_state", None, None)
        /\ UNCHANGED << vote, committed, purged_next, log_ids, snapshot_meta, server_state,
                        purge_upto, history >>

\* the memberships of all nodes in which none, the first or every node votes
VoterMemberships ==
    { [voters |-> v, nodes |-> [n \in NodeIds |-> "a"]] : v \in { {}, { 1 }, NodeIds } }

SetVoters ==
    \E m \in VoterMemberships :
        /\ membership_state' = MembershipAppend(membership_state, EffectiveMembership(None, m))
        /\ call' = Call("membership_state", None, None)
        /\ UNCHANGED << vote, committed, purged_next, log_ids, snapshot_meta, server_state,
                        purge_upto, history >>

\* The log and its commit, purge and snapshot bookkeeping. The engine validates
\* the state after every mutation and a failure is fatal: no call follows a
\* state that does not pass validate().
Next ==
    \/ validate /\ ExtendLogIdsFromSameLeader
    \/ validate /\ ExtendLogIds
    \/ validate /\ UpdateCommitted
    \/ validate /\ PurgeLog
    \/ validate /\ SetSnapshotMeta
    \/ validate /\ SetPurgeUpto
Spec == Init /\ [][Next]_vars

\* commit advancement and the membership it commits, with its history
NextCommit ==
    \/ UpdateCommittedTraced
    \/ AppendLogMembership
SpecCommit == Init /\ [][NextCommit]_vars

\* the log-id index under appends, purges of any log id, and conflict queries
NextLog ==
    \/ ExtendLogIdsFromSameLeader
    \/ ExtendLogIds
    \/ PurgeLog
    \/ FirstConflictingIndex
SpecLog == Init /\ [][NextLog]_vars

\* the role of a node and the leader to forward to
NextRole ==
    \/ SetVote
    \/ SetMembership
    \/ SetServerState
    \/ CalcServerState
    \/ ForwardToLeader
SpecRole == Init /\ [][NextRole]_vars

\* the role of a node while the fields the role does not depend on change
NextRoleFrame ==
    \/ SetOwnVote
    \/ SetVoters
    \/ SetServerState
    \/ PurgeLog
    \/ CalcServerState
SpecRoleFrame == Init /\ [][NextRoleFrame]_vars

\* every mutator, interleaved, under a vote that changes
NextMutators ==
    \/ SetOwnVote
    \/ ExtendLogIdsFromSameLeader
    \/ ExtendLogIds
    \/ UpdateCommitted
    \/ PurgeLog
    \/ AssignLogIds
SpecMutators == Init /\ [][NextMutators]_vars

\* validate(), with its outcome kept
Validate ==
    /\ call' = Call("validate", None, IF validate THEN "Ok" ELSE "Err")
    /\ UNCHANGED << state, history >>

\* The engine takes a snapshot up to an entry of its log, or plans a purge up
\* to one, without a check of its own.
WriteSnapshotMeta ==
    \E l \in LogIds :
        /\ has_log_id(l)
        /\ snapshot_meta' = [last_log_id |-> Some(l)]
        /\ call' = Call("snapshot_meta", l, None)
        /\ UNCHANGED << vote, committed, purged_next, log_ids, membership_state, server_state,
                        purge_upto, history >>

WritePurgeUpto ==
    \E l \in LogIds :
        /\ has_log_id(l)
        /\ purge_upto' = Some(l)
        /\ call' = Call("purge_upto", l, None)
        /\ UNCHANGED << vote, committed, purged_next, log_ids, membership_state, snapshot_meta,
                        server_state, history >>

\* The engine stores the membership the entry at the tail of the log carries.
AppendTailMembership ==
    \E m \in LogMemberships :
        /\ last_log_id # None
        /\ AppendMembership(last_log_id, m)
        /\ UNCHANGED history

\* The engine falls back to a membership that is in no log entry.
ResetMembership ==
    \E m \in LogMemberships :
        /\ membership_state.effective.log_id # None
        /\ membership_state' = MembershipAppend(membership_state, EffectiveMembership(None, m))
        /\ call' = Call("membership_state", None, None)
        /\ UNCHANGED << vote, committed, purged_next, log_ids, snapshot_meta, server_state,
                        purge_upto, history >>

\* update_committed with a candidate above committed
AdvanceCommitted ==
    \E c \in OptLogIds :
        OptLT(committed, c) /\ update_committed(c) /\ UNCHANGED history

\* Every field validate() reads, written with and without regard to the
\* others; a failed validation is fatal, so that a state that does not pass
\* validate() is only validated.
NextValidate ==
    \/ validate /\ ExtendLogIdsFromSameLeader
    \/ validate /\ AdvanceCommitted
    \/ validate /\ PurgeLog
    \/ validate /\ WriteSnapshotMeta
    \/ validate /\ WritePurgeUpto
    \/ validate /\ AppendTailMembership
    \/ validate /\ ResetMembership
    \/ Validate
SpecValidate == Init /\ [][NextValidate]_vars

\* ------------------------------------------------------------------------
\* Properties
\* ------------------------------------------------------------------------
Mutators == { "extend_log_ids", "extend_log_ids_from_same_leader", "update_committed", "purge_log" }

\* C1: after any sequence of update_committed calls, committed is the greatest
\* candidate ever passed (None below every log id, then leader id, then index),
\* and it is not below any `prev` a call returned.
C1_MonotoneCommit ==
    /\ committed = max_cand
    /\ OptLE(max_prev, committed)

\* a candidate is turned down after committed advanced twice
C1_Witness ==
    /\ call.op = "update_committed"
    /\ call.ret = None
    /\ call.arg # None
    /\ max_prev # None
    /\ OptLT(call.arg, committed)

\* C2, as stated: from a state that passes validate(), every call of a mutator,
\* whatever its argument, leaves a state that passes validate().
C2_AnyCallKeepsValid ==
    [][(validate /\ call'.op \in Mutators) => validate']_vars

\* what the caller of a mutator has to ensure
CallerObligation ==
    IF call'.op = "update_committed" THEN OptLE(call'.arg, last_log_id)
    ELSE IF call'.op = "purge_log"
         THEN has_log_id(call'.arg) /\ OptLE(Some(call'.arg), purge_upto)
    ELSE IsRun(call'.arg)

\* C2, amended: from a state that passes validate(), a call of a mutator that
\* meets the caller's obligation leaves a state that passes validate(): the
\* candidate of update_committed is at most last_log_id, the upto of purge_log
\* is a log id of the local log and at most purge_upto, the appended log ids
\* continue the log.
C2_ValidityClosure ==
    [][(validate /\ call'.op \in Mutators /\ CallerObligation) => validate']_vars

\* a purge inside the log, under a snapshot, left a valid state
C2_Witness ==
    /\ call.op = "purge_log"
    /\ validate
    /\ purged_next > 1
    /\ snapshot_last_log_id # None
    /\ last_purged_log_id = Some(call.arg)
    /\ OptLT(last_purged_log_id, last_log_id)

\* C3, as stated: after purge_log(upto), for every upto and every prior state,
\* last_purged_log_id() is upto and purged_next is upto.index + 1.
C3_PurgeSetsBoundary ==
    call.op = "purge_log" =>
        /\ last_purged_log_id = Some(call.arg)
        /\ purged_next = call.arg.index + 1

\* C3, amended: after purge_log(upto) with upto a log id of the local log, or
\* with upto.index beyond the last log id, last_purged_log_id() is upto and
\* purged_next is upto.index + 1.
C3_PurgeOfLocalLogId ==
    [][(/\ call'.op = "purge_log"
        /\ \/ has_log_id(call'.arg)
           \/ call'.arg.index >= NextIndex(last_log_id))
       => /\ last_purged_log_id' = Some(call'.arg)
          /\ purged_next' = call'.arg.index + 1]_vars

\* a purge in the middle of a log of two leaders
C3_Witness ==
    /\ call.op = "purge_log"
    /\ last_purged_log_id = Some(call.arg)
    /\ purged_next = call.arg.index + 1
    /\ Len(log_ids) > 1
    /\ call.arg.index > 0

\* C4: update_committed(candidate) sets committed and returns the previous value
\* exactly when candidate is greater than committed; otherwise it returns None
\* and changes no field. A second call with the same candidate changes nothing.
C4_UpdateCommittedEffect ==
    [][call'.op = "update_committed" =>
        /\ IF OptLT(committed, call'.arg)
           THEN /\ committed' = call'.arg
                /\ committed' # committed
                /\ call'.ret = Some(committed)
           ELSE /\ call'.ret = None
                /\ state' = state
        /\ (call.op = "update_committed" /\ call.arg = call'.arg) =>
                (call'.ret = None /\ state' = state)]_vars

\* the candidate of the call that advanced committed is passed again
C4_Witness ==
    /\ call.op = "update_committed"
    /\ call.ret = None
    /\ call.arg = committed
    /\ committed # None
    /\ membership_state.committed.log_id # None

\* C5: committed never decreases in any step of any interleaving of the
\* mutators, and update_committed with a value not above committed changes
\* nothing wherever it is interleaved.
C5_CommittedNeverDecreases ==
    [][/\ OptLE(committed, committed')
       /\ (call'.op = "update_committed" /\ OptLE(call'.arg, committed)) =>
              (call'.ret = None /\ state' = state)]_vars

\* a lower candidate is turned down after a purge, under a committed vote
C5_Witness ==
    /\ call.op = "update_committed"
    /\ call.ret = None
    /\ OptLT(call.arg, committed)
    /\ purged_next > 0
    /\ VoteIsCommitted(vote)

\* C6: first_conflicting_index(entries) is the least position whose entry is
\* not in the local log (same leader at the same index), and the length of the
\* entries if there is none.
C6_FirstConflictingIndex ==
    call.op = "first_conflicting_index" =>
        /\ call.ret \in 0..Len(call.arg)
        /\ \A k \in 1..call.ret : get_log_id(call.arg[k].index) = Some(call.arg[k])
        /\ call.ret < Len(call.arg) =>
               get_log_id(call.arg[call.ret + 1].index) # Some(call.arg[call.ret + 1])

\* the first entry matches and the second does not
C6_Witness ==
    /\ call.op = "first_conflicting_index"
    /\ Len(call.arg) > 1
    /\ call.ret = 1

\* C7: calc_server_state(id) is Learner if id is no voter of the effective
\* membership, whatever the vote; else Leader if the vote is for id and
\* committed; else Candidate if the vote is for id; else Follower.
C7_CalcServerState ==
    call.op = "calc_server_state" =>
        LET id == call.arg
            voter == id \in membership_state.effective.membership.voters
            for_id == vote.voted_for = Some(id)
        IN  call.ret = IF ~voter THEN "Learner"
                       ELSE IF for_id /\ vote.committed THEN "Leader"
                       ELSE IF for_id THEN "Candidate"
                       ELSE "Follower"

\* a node holding a committed vote for itself is no voter: it is a Learner
C7_Witness ==
    /\ call.op = "calc_server_state"
    /\ call.ret = "Learner"
    /\ vote.committed
    /\ vote.voted_for = Some(call.arg)

\* C8: forward_to_leader() is (L, M) when the vote is committed for L and the
\* effective membership has L with metadata M, voter or not; it is empty when
\* L is not in the effective membership or the vote is not committed; it never
\* fails.
C8_ForwardToLeader ==
    call.op = "forward_to_leader" =>
        LET nodes == membership_state.effective.membership.nodes
        IN  /\ call.ret.status = "ok"
            /\ call.ret.value =
                 IF vote.committed /\ vote.voted_for # None /\ Unwrap(vote.voted_for) \in DOMAIN nodes
                 THEN [leader_id |-> vote.voted_for,
                       leader_node |-> Some(nodes[Unwrap(vote.voted_for)])]
                 ELSE [leader_id |-> None, leader_node |-> None]

\* the leader named is a node of the membership that is no voter
C8_Witness ==
    /\ call.op = "forward_to_leader"
    /\ call.ret.status = "ok"
    /\ call.ret.value.leader_id # None
    /\ Unwrap(call.ret.value.leader_id) \notin membership_state.effective.membership.voters

\* C9: assign_log_ids on n entries, under a vote with committed leader id E and
\* a last log id of index i, sets the log ids (E, i+1), ..., (E, i+n) in order,
\* from the next index after the last log id, and changes no field.
C9_AssignLogIds ==
    [][(call'.op = "assign_log_ids" /\ vote.committed) =>
        /\ state' = state
        /\ call'.ret.status = "ok"
        /\ Len(call'.ret.entries) = Len(call'.arg)
        /\ \A k \in 1..Len(call'.arg) :
               call'.ret.entries[k] = LogId(vote.term, NextIndex(last_log_id) + k - 1)]_vars

\* a batch of two entries got its ids after a log that is not empty
C9_Witness ==
    /\ call.op = "assign_log_ids"
    /\ call.ret.status = "ok"
    /\ Len(call.ret.entries) > 1
    /\ last_log_id # None
    /\ call.ret.entries[1].index = Unwrap(last_log_id).index + 1

\* C10: assign_log_ids under a vote that is not committed fails for every
\* batch, the empty one too, and sets no log id.
C10_AssignWithoutLeaderFails ==
    [][(call'.op = "assign_log_ids" /\ ~vote.committed) =>
        /\ call'.ret.status = Panic
        /\ call'.ret.entries = call'.arg
        /\ state' = state]_vars

\* the empty batch fails under a vote that is not committed
C10_Witness ==
    /\ call.op = "assign_log_ids"
    /\ ~vote.committed
    /\ vote.voted_for # None
    /\ call.arg = << >>
    /\ call.ret.status = Panic

C12_MembershipCommitOnAdvance ==
    [][/\ call'.op = "update_committed" =>
              /\ (call'.commit # None) <=> OptLT(committed, call'.arg)
              /\ (call'.commit # None) <=> (committed' # committed)
              /\ call'.commit # None =>
                     /\ call'.commit = Some(committed')
                     /\ membership_state' = MembershipCommit(membership_state, committed')
              /\ call'.commit = None => membership_state' = membership_state
       /\ call'.op # "update_committed" => call'.commit = None]_vars

\* the advance commits the effective membership, whose log id it reaches
C12_Witness ==
    /\ call.op = "update_committed"
    /\ call.commit = Some(committed)
    /\ membership_state.effective.log_id # None
    /\ membership_state.committed = membership_state.effective
    /\ OptLT(membership_state.effective.log_id, committed)

\* C13, as stated: from a state that passes validate(), purge_log(upto) with
\* upto <= purge_upto in the order of log ids leaves a state that passes
\* validate().
C13_PurgeUnderPurgeUptoKeepsValid ==
    [][(validate /\ call'.op = "purge_log" /\ OptLE(Some(call'.arg), purge_upto))
          => validate']_vars

\* C13, amended: from a state that passes validate(), purge_log(upto) with upto
\* a log id present in the local log and upto <= purge_upto leaves a state that
\* passes validate().
C13_PurgeOfLocalLogIdKeepsValid ==
    [][(validate /\ call'.op = "purge_log" /\ has_log_id(call'.arg)
          /\ OptLE(Some(call'.arg), purge_upto))
          => validate']_vars

\* the postponed purge is carried out as far as purge_upto, in a log of two leaders
C13_Witness ==
    /\ call.op = "purge_log"
    /\ validate
    /\ Some(call.arg) = purge_upto
    /\ last_purged_log_id = purge_upto
    /\ Unwrap(last_log_id).leader_id # call.arg.leader_id

\* C14: purged_next is 0 until the first purge_log call, and no call makes it
\* smaller: a purge_log(upto) with upto.index + 1 below purged_next does not
\* move the boundary back.
C14_PurgedNextNeverDecreases ==
    [][/\ purged_next' >= purged_next
       /\ call'.op # "purge_log" => purged_next' = purged_next]_vars

\* C15: from a state that passes validate(), update_committed(c) with
\* c <= last_log_id leaves a state that passes validate(); in particular
\* committed <= last_log_id, snapshot_last_log_id <= committed and
\* purge_upto <= committed hold afterwards.
C15_CommitWithinLogKeepsValid ==
    [][(validate /\ call'.op = "update_committed" /\ OptLE(call'.arg, last_log_id)) =>
          /\ validate'
          /\ OptLE(committed', last_log_id')
          /\ OptLE(snapshot_last_log_id', committed')
          /\ OptLE(purge_upto', committed')]_vars

\* committed advances to the tail of a purged log, past a snapshot and a postponed purge
C15_Witness ==
    /\ call.op = "update_committed"
    /\ call.ret # None
    /\ call.ret # Some(None)
    /\ validate
    /\ committed = last_log_id
    /\ OptLT(snapshot_last_log_id, committed)
    /\ OptLT(last_purged_log_id, purge_upto)
    /\ purged_next > 0
    /\ snapshot_last_log_id # None

\* C16: validate() changes no field and fails exactly when one of these does
\* not hold, an absent value counting below every log id: purged_next = 0 and
\* the first retained index absent or <= 0, or purged_next # 0 and purged_next
\* = first retained index + 1; last_purged_log_id <= purge_upto; purge_upto <=
\* committed without a snapshot, else purge_upto <= snapshot_last_log_id;
\* snapshot_last_log_id <= committed; committed <= last_log_id; the membership
\* state is valid.
C16_ValidateReportsViolations ==
    [][call'.op = "validate" =>
          LET NotAbove(a, b) ==
                  IF a = None THEN TRUE
                  ELSE IF b = None THEN FALSE
                  ELSE \/ a[1].leader_id < b[1].leader_id
                       \/ a[1].leader_id = b[1].leader_id /\ a[1].index <= b[1].index
              first == LogFirst(log_ids)
              last_purged == IF purged_next = 0 THEN None ELSE first
              PurgeBoundary ==
                  IF purged_next = 0
                  THEN IF first = None THEN TRUE ELSE first[1].index <= 0
                  ELSE IF first = None THEN FALSE ELSE purged_next = first[1].index + 1
              PurgeWithinSnapshot ==
                  IF snapshot_meta.last_log_id = None
                  THEN NotAbove(purge_upto, committed)
                  ELSE NotAbove(purge_upto, snapshot_meta.last_log_id)
              Invariants ==
                  /\ PurgeBoundary
                  /\ NotAbove(last_purged, purge_upto)
                  /\ PurgeWithinSnapshot
                  /\ NotAbove(snapshot_meta.last_log_id, committed)
                  /\ NotAbove(committed, LogLast(log_ids))
                  /\ MembershipValidate(membership_state)
          IN  /\ state' = state
              /\ call'.ret \in { "Ok", "Err" }
              /\ (call'.ret = "Err") <=> ~Invariants]_vars

\* validate() fails on a pending purge that is above the snapshot and not above
\* committed, every other invariant holding
C16_Witness ==
    /\ call.op = "validate"
    /\ call.ret = "Err"
    /\ snapshot_last_log_id # None
    /\ OptLT(snapshot_last_log_id, purge_upto)
    /\ OptLE(purge_upto, committed)
    /\ ValidatePurged
    /\ ValidatePurgeUpto
    /\ ValidateCommitted
    /\ MembershipValidate(membership_state)

\* C17: for every state and every run of log ids of one leader that continues
\* the indexes of the log, extend_log_ids and extend_log_ids_from_same_leader
\* leave logs that agree on last_log_id and on get_log_id(i) for every index
\* i, the log ids of the run among them, and neither changes committed,
\* purged_next, purge_upto, vote, membership_state or snapshot_meta.
C17_AppendsAgree ==
    [][(call'.op \in { "extend_log_ids", "extend_log_ids_from_same_leader" }
          /\ IsSameLeaderRun(call'.arg)) =>
          LET run == call'.arg
              by_extend == LogExtend(log_ids, run)
              by_same_leader == LogExtendFromSameLeader(log_ids, run)
          IN  /\ last_log_id' = LogLast(by_extend)
              /\ last_log_id' = LogLast(by_same_leader)
              /\ \A i \in 0..(MaxIndex + 1) :
                     /\ get_log_id(i)' = LogGet(by_extend, i)
                     /\ get_log_id(i)' = LogGet(by_same_leader, i)
              /\ \A k \in 1..Len(run) : LogGet(log_ids', run[k].index) = Some(run[k])
              /\ Len(run) > 0 => last_log_id' = Some(run[Len(run)])
              /\ UNCHANGED << committed, purged_next, purge_upto, vote, membership_state,
                              snapshot_meta >>]_vars

\* extend_log_ids appended two log ids of a new leader to a purged log of another leader
C17_Witness ==
    /\ call.op = "extend_log_ids"
    /\ Len(call.arg) = 2
    /\ call.arg[1].leader_id = call.arg[2].leader_id
    /\ last_log_id = Some(call.arg[2])
    /\ purged_next > 0
    /\ Len(log_ids) = 3
    /\ log_ids[1].leader_id # call.arg[1].leader_id

\* C18: in every state whose effective membership is valid (it has the node of
\* every voter), calc_server_state(id) = Leader implies that forward_to_leader()
\* returns a non-empty result with leader id id and the node of id.
C18_LeaderIsForwardTarget ==
    \A id \in NodeIds :
        (/\ MembershipIsValid(membership_state.effective.membership)
         /\ calc_server_state(id) = "Leader") =>
            /\ forward_to_leader.status = "ok"
            /\ forward_to_leader.value.leader_id = Some(id)
            /\ forward_to_leader.value.leader_node =
                   Some(membership_state.effective.membership.nodes[id])

\* forward_to_leader named the node that calc_server_state reports as Leader,
\* in a valid membership with another voter
C18_Witness ==
    /\ call.op = "forward_to_leader"
    /\ call.ret.status = "ok"
    /\ call.ret.value.leader_id # None
    /\ call.ret.value.leader_node # None
    /\ calc_server_state(Unwrap(call.ret.value.leader_id)) = "Leader"
    /\ MembershipIsValid(membership_state.effective.membership)
    /\ Cardinality(membership_state.effective.membership.voters) > 1

\* C19: in every state at most one node id has the role Leader or Candidate,
\* the id the vote is cast for; every other voter id has the role Follower;
\* and is_leader(id) implies is_leading(id) for every id.
C19_OneLeading ==
    LET Leading == { id \in NodeIds : calc_server_state(id) \in { "Leader", "Candidate" } }
    IN  /\ Cardinality(Leading) <= 1
        /\ \A id \in Leading : vote.voted_for = Some(id)
        /\ \A id \in NodeIds \ Leading :
               id \in membership_state.effective.membership.voters =>
                   calc_server_state(id) = "Follower"
        /\ \A id \in NodeIds : is_leader(id) => is_leading(id)

\* a voter is reported Follower while another voter is the Leader
C19_Witness ==
    /\ call.op = "calc_server_state"
    /\ call.ret = "Follower"
    /\ \E id \in NodeIds : id # call.arg /\ calc_server_state(id) = "Leader" /\ is_leader(id)
    /\ server_state # "Follower"

====
